---- MODULE Spec2Model ----
(***************************************************************************)
(* Model of the taxifleet backend's authorization and report lifecycle:    *)
(* the permissions package, the report, expense, taxi and deposit services *)
(* and the repository tables they read and write.                          *)
(*                                                                         *)
(* A Go int holding a permission mask is modelled by the set of the bit    *)
(* positions that are 1 in its 64-bit two's complement form, so a & b is   *)
(* intersection, a | b is union, 0 is {} and -1 is 0..63.                  *)
(* Amounts (float64 in the code) are modelled as whole numbers of cents.   *)
(***************************************************************************)
EXTENDS Integers, Sequences, FiniteSets, TLC

\* ---------------------------------------------------------------- bounds
MaxReports == 1
MaxExpenses == 2
MaxTaxis == 1
MaxDeposits == 1
MaxSessions == 2
MaxClock == 2

\* ---------------------------------------------------------- permissions
\* bit 2 of the mask
PermissionEditReports == {2}

\* the int -1: every bit of the 64-bit word
MinusOne == 0..63

\* The role masks as main() installs them with SetPermissionMasks from the
\* configuration defaults: admin 0xFFFFFFFF, owner 0xFFFFF, mechanic 0x70,
\* driver 0x3, manager 0x3.
PermissionAdmin == 0..31
PermissionOwner == 0..19
PermissionMechanic == {4, 5, 6}
PermissionDriver == {0, 1}
\* the configuration default of the manager mask, 0x3
PermissionManager == {0, 1}

\* the permission bits, each the set holding its bit position
PermissionViewReports == {0}
PermissionAddReports == {1}
PermissionDeleteReports == {3}
PermissionViewTaxis == {4}
PermissionAddTaxis == {5}
PermissionEditTaxis == {6}
PermissionDeleteTaxis == {7}
PermissionViewExpenses == {8}
PermissionAddExpenses == {9}
PermissionEditExpenses == {10}
PermissionDeleteExpenses == {11}
PermissionViewDeposits == {12}
PermissionAddDeposits == {13}
PermissionEditDeposits == {14}
PermissionDeleteDeposits == {15}
PermissionViewUsers == {16}
PermissionAddUsers == {17}
PermissionEditUsers == {18}
PermissionDeleteUsers == {19}
PermissionManageTenants == {20}

\* The five package variables PermissionAdmin .. PermissionDriver with the
\* values of their declaration, before main() has called SetPermissionMasks.
PackageMasks ==
    [admin    |-> 0..31,
     owner    |-> PermissionViewReports \cup PermissionAddReports
                  \cup PermissionEditReports \cup PermissionDeleteReports
                  \cup PermissionViewTaxis \cup PermissionAddTaxis
                  \cup PermissionEditTaxis \cup PermissionDeleteTaxis
                  \cup PermissionViewExpenses \cup PermissionAddExpenses
                  \cup PermissionEditExpenses \cup PermissionDeleteExpenses
                  \cup PermissionViewDeposits \cup PermissionAddDeposits
                  \cup PermissionEditDeposits \cup PermissionDeleteDeposits,
     manager  |-> PermissionViewReports \cup PermissionAddReports
                  \cup PermissionEditReports
                  \cup PermissionViewDeposits \cup PermissionAddDeposits
                  \cup PermissionEditDeposits
                  \cup PermissionViewTaxis,
     mechanic |-> PermissionViewTaxis \cup PermissionViewReports,
     driver   |-> PermissionViewReports \cup PermissionAddReports]

\* SetPermissionMasks assigns its five arguments to the package variables
SetPermissionMasks(admin, owner, manager, mechanic, driver) ==
    [admin |-> admin, owner |-> owner, manager |-> manager,
     mechanic |-> mechanic, driver |-> driver]

\* An environment value is the sequence of its characters; << >> is a
\* variable that is unset (os.Getenv returns "").
IsDigit(c) == c \in {"0", "1", "2", "3", "4", "5", "6", "7", "8", "9"}

DigitValue(c) ==
    CASE c = "0" -> 0 [] c = "1" -> 1 [] c = "2" -> 2 [] c = "3" -> 3
      [] c = "4" -> 4 [] c = "5" -> 5 [] c = "6" -> 6 [] c = "7" -> 7
      [] c = "8" -> 8 [] c = "9" -> 9

RECURSIVE Decimal(_)
Decimal(value) ==
    IF value = << >> THEN 0
    ELSE 10 * Decimal(SubSeq(value, 1, Len(value) - 1))
         + DigitValue(value[Len(value)])

\* the bits of a non-negative int as a mask
BitsOf(n) == { i \in 0..30 : (n \div (2 ^ i)) % 2 = 1 }

\* strconv.Atoi on an unsigned decimal literal: base 10 only, so a value
\* written in hexadecimal is an error
Atoi(value) ==
    IF value # << >> /\ \A i \in 1..Len(value) : IsDigit(value[i])
       THEN [err |-> "", parsed |-> BitsOf(Decimal(value))]
    ELSE [err |-> "invalid syntax", parsed |-> {}]

getIntEnv(environment, key, defaultValue) ==
    IF environment[key] # << >> /\ Atoi(environment[key]).err = ""
       THEN Atoi(environment[key]).parsed
    ELSE defaultValue

\* config.Load: the Permissions part of the configuration
PermissionsConfig(environment) ==
    [admin    |-> getIntEnv(environment, "JWT_ADMIN_PERMISSION_MASK", PermissionAdmin),
     owner    |-> getIntEnv(environment, "JWT_OWNER_PERMISSION_MASK", PermissionOwner),
     manager  |-> getIntEnv(environment, "JWT_MANAGER_PERMISSION_MASK", PermissionManager),
     mechanic |-> getIntEnv(environment, "JWT_MECHANIC_PERMISSION_MASK", PermissionMechanic),
     driver   |-> getIntEnv(environment, "JWT_DRIVER_PERMISSION_MASK", PermissionDriver)]

\* mutant: every bit of the required value must be held
M_HasPermission(userPermission, requiredPermission) ==
    IF userPermission = MinusOne \/ userPermission = PermissionAdmin THEN TRUE
    ELSE IF (userPermission \cap PermissionAdmin) = PermissionAdmin THEN TRUE
    ELSE /\ requiredPermission # {}
         /\ (userPermission \cap requiredPermission) = requiredPermission

HasPermission(userPermission, requiredPermission) ==
    IF userPermission = MinusOne \/ userPermission = PermissionAdmin THEN TRUE
    ELSE IF (userPermission \cap PermissionAdmin) = PermissionAdmin THEN TRUE
    ELSE (userPermission \cap requiredPermission) # {}

\* requiredPermissions is the sequence of the variadic arguments
HasAnyPermission(userPermission, requiredPermissions) ==
    IF userPermission = MinusOne \/ userPermission = PermissionAdmin THEN TRUE
    ELSE IF (userPermission \cap PermissionAdmin) = PermissionAdmin THEN TRUE
    ELSE \E i \in 1..Len(requiredPermissions) :
            (userPermission \cap requiredPermissions[i]) # {}

HasAllPermissions(userPermission, requiredPermissions) ==
    IF userPermission = MinusOne \/ userPermission = PermissionAdmin THEN TRUE
    ELSE IF (userPermission \cap PermissionAdmin) = PermissionAdmin THEN TRUE
    ELSE \A i \in 1..Len(requiredPermissions) :
            (userPermission \cap requiredPermissions[i]) # {}

\* ------------------------------------------------------------- the world
VARIABLES taxis, reports, expenses, deposits, last,
          users, sessions, clock, token, check,
          env, roleMasks, inflight

vars == <<taxis, reports, expenses, deposits, last,
          users, sessions, clock, token, check,
          env, roleMasks, inflight>>

\* what every request handler leaves alone once it has answered: the process
\* environment, the role masks main() installed, and the requests of the
\* other goroutines that have read a row and not yet written it back
procVars == <<env, roleMasks, inflight>>

\* what the report, expense, taxi and deposit handlers leave alone: the users
\* and sessions tables, the clock, the access token issued last and the
\* permission check evaluated last
authVars == <<users, sessions, clock, token, check>>

Users == {1, 2, 3}
\* the tenant the Auth middleware puts in the request context: the tenant_id
\* of the caller's row in users
TenantOf(u) == users[u].tenant

\* permission masks a caller's context may carry
Masks == { {}, PermissionDriver, PermissionEditReports, PermissionMechanic,
           PermissionOwner, PermissionAdmin, MinusOne }

Amounts == {1, 2}
Times == {1, 2}
\* week start dates, as day numbers
Weeks == {1, 2}
Nil == 0

ErrRecordNotFound == "record not found"
ErrForeignKey == "violates foreign key constraint"

\* ------------------------------------------------------------ repository
\* A table is a sequence of rows; a row's id is its index (SERIAL primary
\* key). Rows are soft-deleted: gorm's First/Find skip rows with deleted_at.
Found(table, id) == id \in DOMAIN table /\ ~table[id].deleted

SoftDelete(table, id) == [table EXCEPT ![id].deleted = TRUE]

GetExpensesByReport(exps, reportID) ==
    {i \in DOMAIN exps : ~exps[i].deleted /\ exps[i].reportID = reportID}

RECURSIVE SumAmounts(_, _)
SumAmounts(exps, ids) ==
    IF ids = {} THEN 0
    ELSE LET i == CHOOSE x \in ids : TRUE
         IN exps[i].amount + SumAmounts(exps, ids \ {i})

\* the loop "total += exp.Amount" over GetExpensesByReport
RecalcTotal(exps, reportID) == SumAmounts(exps, GetExpensesByReport(exps, reportID))

\* --------------------------------------------------------- ReportService
\* A service operator returns the error ("" for nil) and the tables the call
\* writes, as the call leaves them.
NewReport(tenantID, taxiID, driverID, weekStartDate, earnings) ==
    [tenant |-> tenantID, taxi |-> taxiID, driver |-> driverID,
     weekStart |-> weekStartDate,
     earnings |-> earnings, total |-> 0, status |-> "draft",
     submittedAt |-> Nil, approvedAt |-> Nil, approvedBy |-> Nil,
     deleted |-> FALSE]

\* mutant: the taxi's tenant is not compared with the caller's
M_ReportService_Create(txs, reps, tenantID, driverID, taxiID, weekStartDate, earnings) ==
    IF ~Found(txs, taxiID) THEN [err |-> "taxi not found", reports |-> reps]
    ELSE [err |-> "",
          reports |-> Append(reps, NewReport(tenantID, taxiID, driverID, weekStartDate, earnings))]

ReportService_Create(txs, reps, tenantID, driverID, taxiID, weekStartDate, earnings) ==
    IF ~Found(txs, taxiID) THEN [err |-> "taxi not found", reports |-> reps]
    ELSE IF txs[taxiID].tenant # tenantID
       THEN [err |-> "taxi not found", reports |-> reps]
    ELSE [err |-> "",
          reports |-> Append(reps, NewReport(tenantID, taxiID, driverID, weekStartDate, earnings))]

ReportService_GetByID(reps, id, tenantID) ==
    IF ~Found(reps, id) THEN [err |-> ErrRecordNotFound, reports |-> reps]
    ELSE IF reps[id].tenant # tenantID
       THEN [err |-> "report not found", reports |-> reps]
    ELSE [err |-> "", reports |-> reps]

GetReportsByTenant(reps, tenantID) ==
    {i \in DOMAIN reps : ~reps[i].deleted /\ reps[i].tenant = tenantID}

GetReportsByDriver(reps, driverID) ==
    {i \in DOMAIN reps : ~reps[i].deleted /\ reps[i].driver = driverID}

\* Order("week_start_date DESC"): the ids in every order the database may
\* return them, rows of equal week start date in either order
OrderByWeekStartDateDesc(reps, ids) ==
    {s \in [1..Cardinality(ids) -> ids] :
        /\ \A i, j \in DOMAIN s : i # j => s[i] # s[j]
        /\ \A i, j \in DOMAIN s :
              i < j => reps[s[i]].weekStart >= reps[s[j]].weekStart}

\* the lists of report ids the call may return
ReportService_List(reps, tenantID, userID, permission) ==
    IF permission = PermissionDriver
       THEN OrderByWeekStartDateDesc(reps, GetReportsByDriver(reps, userID))
    ELSE OrderByWeekStartDateDesc(reps, GetReportsByTenant(reps, tenantID))

\* mutant: a successful edit sends the report back to draft
M_ReportService_Update_Redraft(reps, exps, id, tenantID, driverID, permission, reqWeekStartDate, reqEarnings) ==
    IF ~Found(reps, id) THEN [err |-> ErrRecordNotFound, reports |-> reps]
    ELSE IF reps[id].tenant # tenantID
       THEN [err |-> "report not found", reports |-> reps]
    ELSE LET hasEditPermission == HasPermission(permission, PermissionEditReports)
         IN IF ~hasEditPermission /\ reps[id].driver # driverID
               THEN [err |-> "unauthorized", reports |-> reps]
            ELSE IF ~hasEditPermission /\ reps[id].status # "draft"
               THEN [err |-> "can only edit draft reports", reports |-> reps]
            ELSE IF hasEditPermission /\ reps[id].status = "approved"
               THEN [err |-> "cannot edit approved reports", reports |-> reps]
            ELSE [err |-> "",
                  reports |-> [reps EXCEPT
                      ![id].weekStart = IF reqWeekStartDate # Nil THEN reqWeekStartDate ELSE @,
                      ![id].earnings = IF reqEarnings # 0 THEN reqEarnings ELSE @,
                      ![id].total = RecalcTotal(exps, id),
                      ![id].status = "draft"]]

\* mutant: an editor may edit an approved report
M_ReportService_Update_Approved(reps, exps, id, tenantID, driverID, permission, reqWeekStartDate, reqEarnings) ==
    IF ~Found(reps, id) THEN [err |-> ErrRecordNotFound, reports |-> reps]
    ELSE IF reps[id].tenant # tenantID
       THEN [err |-> "report not found", reports |-> reps]
    ELSE LET hasEditPermission == HasPermission(permission, PermissionEditReports)
         IN IF ~hasEditPermission /\ reps[id].driver # driverID
               THEN [err |-> "unauthorized", reports |-> reps]
            ELSE IF ~hasEditPermission /\ reps[id].status # "draft"
               THEN [err |-> "can only edit draft reports", reports |-> reps]
            ELSE [err |-> "",
                  reports |-> [reps EXCEPT
                      ![id].weekStart = IF reqWeekStartDate # Nil THEN reqWeekStartDate ELSE @,
                      ![id].earnings = IF reqEarnings # 0 THEN reqEarnings ELSE @,
                      ![id].total = RecalcTotal(exps, id)]]

\* a request field holding its zero value (Nil for the zero time, 0 for the
\* earnings) keeps the stored value
ReportService_Update(reps, exps, id, tenantID, driverID, permission, reqWeekStartDate, reqEarnings) ==
    IF ~Found(reps, id) THEN [err |-> ErrRecordNotFound, reports |-> reps]
    ELSE IF reps[id].tenant # tenantID
       THEN [err |-> "report not found", reports |-> reps]
    ELSE LET hasEditPermission == HasPermission(permission, PermissionEditReports)
         IN IF ~hasEditPermission /\ reps[id].driver # driverID
               THEN [err |-> "unauthorized", reports |-> reps]
            ELSE IF ~hasEditPermission /\ reps[id].status # "draft"
               THEN [err |-> "can only edit draft reports", reports |-> reps]
            ELSE IF hasEditPermission /\ reps[id].status = "approved"
               THEN [err |-> "cannot edit approved reports", reports |-> reps]
            ELSE [err |-> "",
                  reports |-> [reps EXCEPT
                      ![id].weekStart = IF reqWeekStartDate # Nil THEN reqWeekStartDate ELSE @,
                      ![id].earnings = IF reqEarnings # 0 THEN reqEarnings ELSE @,
                      ![id].total = RecalcTotal(exps, id)]]

\* mutant: the status changes but submitted_at is not stamped
M_ReportService_Submit_NoStamp(reps, id, tenantID, driverID, now) ==
    IF ~Found(reps, id) THEN [err |-> ErrRecordNotFound, reports |-> reps]
    ELSE IF reps[id].tenant # tenantID
       THEN [err |-> "report not found", reports |-> reps]
    ELSE IF reps[id].driver # driverID
       THEN [err |-> "unauthorized", reports |-> reps]
    ELSE IF reps[id].status # "draft"
       THEN [err |-> "report already submitted", reports |-> reps]
    ELSE [err |-> "", reports |-> [reps EXCEPT ![id].status = "submitted"]]

\* mutant: the caller is not compared with the report's driver
M_ReportService_Submit(reps, id, tenantID, driverID, now) ==
    IF ~Found(reps, id) THEN [err |-> ErrRecordNotFound, reports |-> reps]
    ELSE IF reps[id].tenant # tenantID
       THEN [err |-> "report not found", reports |-> reps]
    ELSE IF reps[id].status # "draft"
       THEN [err |-> "report already submitted", reports |-> reps]
    ELSE [err |-> "",
          reports |-> [reps EXCEPT ![id].status = "submitted",
                                   ![id].submittedAt = now]]

ReportService_Submit(reps, id, tenantID, driverID, now) ==
    IF ~Found(reps, id) THEN [err |-> ErrRecordNotFound, reports |-> reps]
    ELSE IF reps[id].tenant # tenantID
       THEN [err |-> "report not found", reports |-> reps]
    ELSE IF reps[id].driver # driverID
       THEN [err |-> "unauthorized", reports |-> reps]
    ELSE IF reps[id].status # "draft"
       THEN [err |-> "report already submitted", reports |-> reps]
    ELSE [err |-> "",
          reports |-> [reps EXCEPT ![id].status = "submitted",
                                   ![id].submittedAt = now]]

\* mutant: the report is loaded and its tenant compared before the mask is
\* looked at
M_ReportService_Approve_TenantFirst(reps, id, tenantID, approvedByID, permission, now) ==
    IF ~Found(reps, id) THEN [err |-> ErrRecordNotFound, reports |-> reps]
    ELSE IF reps[id].tenant # tenantID
       THEN [err |-> "report not found", reports |-> reps]
    ELSE IF ~HasAnyPermission(permission, <<PermissionOwner, PermissionAdmin>>)
       THEN [err |-> "only owner or admin can approve reports", reports |-> reps]
    ELSE IF reps[id].status # "submitted"
       THEN [err |-> "report must be submitted before approval", reports |-> reps]
    ELSE [err |-> "",
          reports |-> [reps EXCEPT ![id].status = "approved",
                                   ![id].approvedAt = now,
                                   ![id].approvedBy = approvedByID]]

\* mutant: the status is not checked, so an approved report is approved again
M_ReportService_Approve(reps, id, tenantID, approvedByID, permission, now) ==
    IF ~HasAnyPermission(permission, <<PermissionOwner, PermissionAdmin>>)
       THEN [err |-> "only owner or admin can approve reports", reports |-> reps]
    ELSE IF ~Found(reps, id) THEN [err |-> ErrRecordNotFound, reports |-> reps]
    ELSE IF reps[id].tenant # tenantID
       THEN [err |-> "report not found", reports |-> reps]
    ELSE [err |-> "",
          reports |-> [reps EXCEPT ![id].status = "approved",
                                   ![id].approvedAt = now,
                                   ![id].approvedBy = approvedByID]]

ReportService_Approve(reps, id, tenantID, approvedByID, permission, now) ==
    IF ~HasAnyPermission(permission, <<PermissionOwner, PermissionAdmin>>)
       THEN [err |-> "only owner or admin can approve reports", reports |-> reps]
    ELSE IF ~Found(reps, id) THEN [err |-> ErrRecordNotFound, reports |-> reps]
    ELSE IF reps[id].tenant # tenantID
       THEN [err |-> "report not found", reports |-> reps]
    ELSE IF reps[id].status # "submitted"
       THEN [err |-> "report must be submitted before approval", reports |-> reps]
    ELSE [err |-> "",
          reports |-> [reps EXCEPT ![id].status = "approved",
                                   ![id].approvedAt = now,
                                   ![id].approvedBy = approvedByID]]

\* mutant: the status is not looked at
M_ReportService_Reject(reps, id, tenantID) ==
    IF ~Found(reps, id) THEN [err |-> ErrRecordNotFound, reports |-> reps]
    ELSE IF reps[id].tenant # tenantID
       THEN [err |-> "report not found", reports |-> reps]
    ELSE [err |-> "", reports |-> [reps EXCEPT ![id].status = "rejected"]]

ReportService_Reject(reps, id, tenantID) ==
    IF ~Found(reps, id) THEN [err |-> ErrRecordNotFound, reports |-> reps]
    ELSE IF reps[id].tenant # tenantID
       THEN [err |-> "report not found", reports |-> reps]
    ELSE IF reps[id].status # "submitted"
       THEN [err |-> "report must be submitted before rejection", reports |-> reps]
    ELSE [err |-> "", reports |-> [reps EXCEPT ![id].status = "rejected"]]

ReportService_Delete(reps, id, tenantID, driverID, permission) ==
    IF ~Found(reps, id) THEN [err |-> ErrRecordNotFound, reports |-> reps]
    ELSE IF reps[id].tenant # tenantID
       THEN [err |-> "report not found", reports |-> reps]
    ELSE IF HasAnyPermission(permission, <<PermissionOwner, PermissionAdmin>>)
       THEN [err |-> "", reports |-> SoftDelete(reps, id)]
    ELSE IF permission = PermissionDriver
       THEN IF reps[id].driver # driverID
               THEN [err |-> "unauthorized", reports |-> reps]
            ELSE IF reps[id].status # "draft"
               THEN [err |-> "can only delete draft reports", reports |-> reps]
            ELSE [err |-> "", reports |-> SoftDelete(reps, id)]
    ELSE [err |-> "unauthorized", reports |-> reps]

\* -------------------------------------------------------- ExpenseService
\* reportID = Nil is a nil *uint. The expenses.report_id column references
\* weekly_reports(id): an id with no row makes the INSERT fail.
ExpenseService_Create(reps, exps, tenantID, createdByID, reportID, amount) ==
    IF reportID # Nil /\ reportID \notin DOMAIN reps
       THEN [err |-> ErrForeignKey, reports |-> reps, expenses |-> exps]
    ELSE LET exps2 == Append(exps, [tenant |-> tenantID, reportID |-> reportID,
                                    amount |-> amount, deleted |-> FALSE])
         IN IF reportID # Nil /\ Found(reps, reportID)
                /\ reps[reportID].tenant = tenantID
               THEN [err |-> "",
                     reports |-> [reps EXCEPT ![reportID].total =
                                     RecalcTotal(exps2, reportID)],
                     expenses |-> exps2]
            ELSE [err |-> "", reports |-> reps, expenses |-> exps2]

ExpenseService_GetByID(reps, exps, id, tenantID) ==
    IF ~Found(exps, id)
       THEN [err |-> ErrRecordNotFound, reports |-> reps, expenses |-> exps]
    ELSE IF exps[id].tenant # tenantID
       THEN [err |-> "expense not found", reports |-> reps, expenses |-> exps]
    ELSE [err |-> "", reports |-> reps, expenses |-> exps]

\* reqAmount = 0 is the zero value of the request field: keep the old one
ExpenseService_Update(reps, exps, id, tenantID, reqAmount) ==
    IF ~Found(exps, id)
       THEN [err |-> ErrRecordNotFound, reports |-> reps, expenses |-> exps]
    ELSE IF exps[id].tenant # tenantID
       THEN [err |-> "expense not found", reports |-> reps, expenses |-> exps]
    ELSE LET exps2 == [exps EXCEPT ![id].amount =
                                      IF reqAmount # 0 THEN reqAmount ELSE @]
             reportID == exps[id].reportID
         IN IF reportID # Nil /\ Found(reps, reportID)
               THEN [err |-> "",
                     reports |-> [reps EXCEPT ![reportID].total =
                                     RecalcTotal(exps2, reportID)],
                     expenses |-> exps2]
            ELSE [err |-> "", reports |-> reps, expenses |-> exps2]

ExpenseService_Delete(reps, exps, id, tenantID) ==
    IF ~Found(exps, id)
       THEN [err |-> ErrRecordNotFound, reports |-> reps, expenses |-> exps]
    ELSE IF exps[id].tenant # tenantID
       THEN [err |-> "expense not found", reports |-> reps, expenses |-> exps]
    ELSE LET exps2 == SoftDelete(exps, id)
             reportID == exps[id].reportID
         IN IF reportID # Nil /\ Found(reps, reportID)
               THEN [err |-> "",
                     reports |-> [reps EXCEPT ![reportID].total =
                                     RecalcTotal(exps2, reportID)],
                     expenses |-> exps2]
            ELSE [err |-> "", reports |-> reps, expenses |-> exps2]

\* ----------------------------------------------------------- TaxiService
\* reqStatus = "" is the zero value of the request field
TaxiService_Create(txs, tenantID, reqStatus) ==
    [err |-> "",
     taxis |-> Append(txs, [tenant |-> tenantID,
                            status |-> IF reqStatus = "" THEN "active" ELSE reqStatus,
                            deleted |-> FALSE])]

TaxiService_GetByID(txs, id, tenantID) ==
    IF ~Found(txs, id) THEN [err |-> ErrRecordNotFound, taxis |-> txs]
    ELSE IF txs[id].tenant # tenantID THEN [err |-> "taxi not found", taxis |-> txs]
    ELSE [err |-> "", taxis |-> txs]

TaxiService_Update(txs, id, tenantID, reqStatus) ==
    IF ~Found(txs, id) THEN [err |-> ErrRecordNotFound, taxis |-> txs]
    ELSE IF txs[id].tenant # tenantID THEN [err |-> "taxi not found", taxis |-> txs]
    ELSE [err |-> "",
          taxis |-> [txs EXCEPT ![id].status =
                                   IF reqStatus # "" THEN reqStatus ELSE @]]

TaxiService_Delete(txs, id, tenantID) ==
    IF ~Found(txs, id) THEN [err |-> ErrRecordNotFound, taxis |-> txs]
    ELSE IF txs[id].tenant # tenantID THEN [err |-> "taxi not found", taxis |-> txs]
    ELSE [err |-> "", taxis |-> SoftDelete(txs, id)]

\* -------------------------------------------------------- DepositService
DepositService_Create(deps, tenantID, amount) ==
    [err |-> "",
     deposits |-> Append(deps, [tenant |-> tenantID, amount |-> amount,
                                deleted |-> FALSE])]

DepositService_GetByID(deps, id, tenantID) ==
    IF ~Found(deps, id) THEN [err |-> ErrRecordNotFound, deposits |-> deps]
    ELSE IF deps[id].tenant # tenantID
       THEN [err |-> "deposit not found", deposits |-> deps]
    ELSE [err |-> "", deposits |-> deps]

\* reqAmount = 0 is the zero value of the request field: keep the old one
DepositService_Update(deps, id, tenantID, reqAmount) ==
    IF ~Found(deps, id) THEN [err |-> ErrRecordNotFound, deposits |-> deps]
    ELSE IF deps[id].tenant # tenantID
       THEN [err |-> "deposit not found", deposits |-> deps]
    ELSE [err |-> "",
          deposits |-> [deps EXCEPT ![id].amount =
                                       IF reqAmount # 0 THEN reqAmount ELSE @]]

\* mutant: the deposit's tenant is not compared with the caller's
M_DepositService_Delete(deps, id, tenantID) ==
    IF ~Found(deps, id) THEN [err |-> ErrRecordNotFound, deposits |-> deps]
    ELSE [err |-> "", deposits |-> SoftDelete(deps, id)]

DepositService_Delete(deps, id, tenantID) ==
    IF ~Found(deps, id) THEN [err |-> ErrRecordNotFound, deposits |-> deps]
    ELSE IF deps[id].tenant # tenantID
       THEN [err |-> "deposit not found", deposits |-> deps]
    ELSE [err |-> "", deposits |-> SoftDelete(deps, id)]

\* ------------------------------------------------------------ AuthService
\* Time is a clock of whole ticks. The access token lives JWTExpiration ticks
\* and the refresh token, with its session, RefreshExpiration ticks.
JWTExpiration == 1
RefreshExpiration == 2

Secret == "secret"
ErrDuplicateKey == "duplicate key value violates unique constraint"

Tenants == {1, 2}

\* bcrypt, without its salt: a hash matches the password it was made from
Hash(password) == <<"bcrypt", password>>

CompareHashAndPassword(hash, password) == hash = Hash(password)

\* the ids of the rows Where("email = ?") selects; First takes the lowest
GetUserByEmail(us, email) ==
    {i \in DOMAIN us : ~us[i].deleted /\ us[i].email = email}

First(ids) == CHOOSE i \in ids : \A j \in ids : i <= j

\* a signed JWT is the record of its claims and of the key that signed it;
\* the refresh token carries no email claim
AccessToken(us, id, t) ==
    [user |-> id, email |-> us[id].email, permission |-> us[id].permission,
     iat |-> t, exp |-> t + JWTExpiration, key |-> Secret]

RefreshTokenFor(us, id, t) ==
    [user |-> id, email |-> "", permission |-> us[id].permission,
     iat |-> t, exp |-> t + RefreshExpiration, key |-> Secret]

\* the empty string returned in place of a token when a call fails
NoToken ==
    [user |-> 0, email |-> "", permission |-> {}, iat |-> 0, exp |-> 0, key |-> ""]

\* the live sessions Where("token = ? AND expires_at > NOW()") selects
GetSessionByToken(sess, t, refreshToken) ==
    {i \in DOMAIN sess : /\ ~sess[i].deleted
                         /\ sess[i].token = refreshToken
                         /\ sess[i].expiresAt > t}

\* mutant: the session is stored before the active flag is looked at
M_AuthService_Login_SessionFirst(us, sess, t, email, password) ==
    LET ids == GetUserByEmail(us, email)
        id == First(ids)
        refused(e) == [err |-> e, sessions |-> sess, token |-> NoToken]
        stored == Append(sess, [user |-> id,
                                token |-> RefreshTokenFor(us, id, t),
                                expiresAt |-> t + RefreshExpiration,
                                deleted |-> FALSE])
    IN IF ids = {} THEN refused("invalid credentials")
       ELSE IF ~CompareHashAndPassword(us[id].passwordHash, password)
          THEN refused("invalid credentials")
       ELSE IF \E i \in DOMAIN sess : sess[i].token = RefreshTokenFor(us, id, t)
          THEN refused(ErrDuplicateKey)
       ELSE IF ~us[id].active
          THEN [err |-> "user account is inactive", sessions |-> stored,
                token |-> NoToken]
       ELSE [err |-> "", sessions |-> stored, token |-> AccessToken(us, id, t)]

\* mutant: the active flag is looked at before the password
M_AuthService_Login_ActiveFirst(us, sess, t, email, password) ==
    LET ids == GetUserByEmail(us, email)
        id == First(ids)
        refused(e) == [err |-> e, sessions |-> sess, token |-> NoToken]
    IN IF ids = {} THEN refused("invalid credentials")
       ELSE IF ~us[id].active THEN refused("user account is inactive")
       ELSE IF ~CompareHashAndPassword(us[id].passwordHash, password)
          THEN refused("invalid credentials")
       ELSE IF \E i \in DOMAIN sess : sess[i].token = RefreshTokenFor(us, id, t)
          THEN refused(ErrDuplicateKey)
       ELSE [err |-> "",
             sessions |-> Append(sess, [user |-> id,
                                        token |-> RefreshTokenFor(us, id, t),
                                        expiresAt |-> t + RefreshExpiration,
                                        deleted |-> FALSE]),
             token |-> AccessToken(us, id, t)]

\* token is the access token of the response, NoToken with an error. The
\* sessions table has a UNIQUE constraint on token, which soft-deleted rows
\* still occupy.
AuthService_Login(us, sess, t, email, password) ==
    LET ids == GetUserByEmail(us, email)
        id == First(ids)
        refused(e) == [err |-> e, sessions |-> sess, token |-> NoToken]
    IN IF ids = {} THEN refused("invalid credentials")
       ELSE IF ~CompareHashAndPassword(us[id].passwordHash, password)
          THEN refused("invalid credentials")
       ELSE IF ~us[id].active THEN refused("user account is inactive")
       ELSE IF \E i \in DOMAIN sess : sess[i].token = RefreshTokenFor(us, id, t)
          THEN refused(ErrDuplicateKey)
       ELSE [err |-> "",
             sessions |-> Append(sess, [user |-> id,
                                        token |-> RefreshTokenFor(us, id, t),
                                        expiresAt |-> t + RefreshExpiration,
                                        deleted |-> FALSE]),
             token |-> AccessToken(us, id, t)]

\* mutant: a successful refresh deletes the session it used
M_AuthService_RefreshToken(us, sess, t, refreshToken) ==
    LET ids == GetSessionByToken(sess, t, refreshToken)
        session == sess[First(ids)]
    IN IF ids = {}
          THEN [err |-> "invalid refresh token", sessions |-> sess, token |-> NoToken]
       ELSE IF ~Found(us, session.user)
          THEN [err |-> "user not found", sessions |-> sess, token |-> NoToken]
       ELSE [err |-> "", sessions |-> SoftDelete(sess, First(ids)),
             token |-> AccessToken(us, session.user, t)]

AuthService_RefreshToken(us, sess, t, refreshToken) ==
    LET ids == GetSessionByToken(sess, t, refreshToken)
        session == sess[First(ids)]
    IN IF ids = {}
          THEN [err |-> "invalid refresh token", sessions |-> sess, token |-> NoToken]
       ELSE IF ~Found(us, session.user)
          THEN [err |-> "user not found", sessions |-> sess, token |-> NoToken]
       ELSE [err |-> "", sessions |-> sess,
             token |-> AccessToken(us, session.user, t)]

\* mutant: the sessions of other tokens are deleted as well
M_AuthService_Logout(sess, refreshToken) ==
    [err |-> "",
     sessions |-> [i \in DOMAIN sess |-> [sess[i] EXCEPT !.deleted = TRUE]]]

AuthService_Logout(sess, refreshToken) ==
    [err |-> "",
     sessions |-> [i \in DOMAIN sess |->
                      IF sess[i].token = refreshToken
                         THEN [sess[i] EXCEPT !.deleted = TRUE]
                      ELSE sess[i]]]

\* mutant: the user's active flag is not looked at
M_AuthService_ValidateToken(us, t, tokenString) ==
    IF tokenString.key # Secret THEN [err |-> "invalid token", userID |-> Nil]
    ELSE IF ~(t < tokenString.exp) THEN [err |-> "token expired", userID |-> Nil]
    ELSE IF ~Found(us, tokenString.user)
       THEN [err |-> "user not found", userID |-> Nil]
    ELSE [err |-> "", userID |-> tokenString.user]

\* userID is the id of the user returned, Nil with an error. jwt.Parse
\* verifies the signature and then the exp claim.
AuthService_ValidateToken(us, t, tokenString) ==
    IF tokenString.key # Secret THEN [err |-> "invalid token", userID |-> Nil]
    ELSE IF ~(t < tokenString.exp) THEN [err |-> "token expired", userID |-> Nil]
    ELSE IF ~Found(us, tokenString.user)
       THEN [err |-> "user not found", userID |-> Nil]
    ELSE IF ~us[tokenString.user].active
       THEN [err |-> "user account is inactive", userID |-> Nil]
    ELSE [err |-> "", userID |-> tokenString.user]

\* what the Auth middleware stores in the request context for the handlers:
\* the fields of the user ValidateToken returned
RequestContext(us, userID) ==
    [userID |-> userID, tenantID |-> us[userID].tenant,
     permission |-> us[userID].permission]

\* ----------------------------------------------------------- AdminService
\* The request's zero values (0 for tenant_id and permission, a nil pointer
\* for active) keep the stored field; reqActive is the set of the values the
\* pointer points to. The email, password, names and phone of the request
\* keep the stored ones.
AdminService_UpdateUser(us, id, reqTenantID, reqPermission, reqActive) ==
    IF ~Found(us, id) THEN [err |-> "user not found", users |-> us]
    ELSE IF reqTenantID # 0 /\ reqTenantID \notin Tenants
       THEN [err |-> "tenant not found", users |-> us]
    ELSE [err |-> "",
          users |-> [us EXCEPT
              ![id].tenant = IF reqTenantID # 0 THEN reqTenantID ELSE @,
              ![id].permission = IF reqPermission # {} THEN reqPermission ELSE @,
              ![id].active = IF reqActive # {} THEN (CHOOSE a \in reqActive : TRUE)
                             ELSE @]]

AdminService_DeleteUser(us, id) ==
    [err |-> "", users |-> IF Found(us, id) THEN SoftDelete(us, id) ELSE us]

dataVars == <<taxis, reports, expenses, deposits>>

\* -------------------------------------------------------------- handlers
\* A handler takes tenantID, userID and permission from the request context
\* of the authenticated user and the rest from the request. last is the
\* operation served last and the error it answered with.
Call(op, err) == [op |-> op, err |-> err]

ReportIDs == 1..(MaxReports + 1)
ExpenseIDs == 1..(MaxExpenses + 1)
TaxiIDs == 1..3
DepositIDs == 1..(MaxDeposits + 1)

ReportHandler_Create(u, taxiID, weekStartDate, earnings) ==
    LET res == ReportService_Create(taxis, reports, TenantOf(u), u, taxiID,
                                    weekStartDate, earnings)
    IN /\ Len(reports) < MaxReports
       /\ reports' = res.reports
       /\ last' = Call("ReportCreate", res.err)
       /\ UNCHANGED <<procVars, authVars, taxis, expenses, deposits>>

\* List reads only; it never fails
ReportHandler_List(u, permission) ==
    /\ ReportService_List(reports, TenantOf(u), u, permission) # {}
    /\ last' = Call("ReportList", "")
    /\ UNCHANGED <<procVars, authVars, dataVars>>

ReportHandler_Get(u, id) ==
    LET res == ReportService_GetByID(reports, id, TenantOf(u))
    IN /\ reports' = res.reports
       /\ last' = Call("ReportGet", res.err)
       /\ UNCHANGED <<procVars, authVars, taxis, expenses, deposits>>

ReportHandler_Update(u, permission, id, reqWeekStartDate, reqEarnings) ==
    LET res == ReportService_Update(reports, expenses, id, TenantOf(u), u,
                                    permission, reqWeekStartDate, reqEarnings)
    IN /\ reports' = res.reports
       /\ last' = Call("ReportUpdate", res.err)
       /\ UNCHANGED <<procVars, authVars, taxis, expenses, deposits>>

ReportHandler_Submit(u, id, now) ==
    LET res == ReportService_Submit(reports, id, TenantOf(u), u, now)
    IN /\ reports' = res.reports
       /\ last' = Call("ReportSubmit", res.err)
       /\ UNCHANGED <<procVars, authVars, taxis, expenses, deposits>>

ReportHandler_Approve(u, permission, id, now) ==
    LET res == ReportService_Approve(reports, id, TenantOf(u), u, permission, now)
    IN /\ reports' = res.reports
       /\ last' = Call("ReportApprove", res.err)
       /\ UNCHANGED <<procVars, authVars, taxis, expenses, deposits>>

ReportHandler_Reject(u, id) ==
    LET res == ReportService_Reject(reports, id, TenantOf(u))
    IN /\ reports' = res.reports
       /\ last' = Call("ReportReject", res.err)
       /\ UNCHANGED <<procVars, authVars, taxis, expenses, deposits>>

ReportHandler_Delete(u, permission, id) ==
    LET res == ReportService_Delete(reports, id, TenantOf(u), u, permission)
    IN /\ reports' = res.reports
       /\ last' = Call("ReportDelete", res.err)
       /\ UNCHANGED <<procVars, authVars, taxis, expenses, deposits>>

ExpenseHandler_Create(u, reportID, amount) ==
    LET res == ExpenseService_Create(reports, expenses, TenantOf(u), u, reportID,
                                     amount)
    IN /\ Len(expenses) < MaxExpenses
       /\ reports' = res.reports
       /\ expenses' = res.expenses
       /\ last' = Call("ExpenseCreate", res.err)
       /\ UNCHANGED <<procVars, authVars, taxis, deposits>>

ExpenseHandler_Get(u, id) ==
    LET res == ExpenseService_GetByID(reports, expenses, id, TenantOf(u))
    IN /\ reports' = res.reports
       /\ expenses' = res.expenses
       /\ last' = Call("ExpenseGet", res.err)
       /\ UNCHANGED <<procVars, authVars, taxis, deposits>>

ExpenseHandler_Update(u, id, reqAmount) ==
    LET res == ExpenseService_Update(reports, expenses, id, TenantOf(u), reqAmount)
    IN /\ reports' = res.reports
       /\ expenses' = res.expenses
       /\ last' = Call("ExpenseUpdate", res.err)
       /\ UNCHANGED <<procVars, authVars, taxis, deposits>>

ExpenseHandler_Delete(u, id) ==
    LET res == ExpenseService_Delete(reports, expenses, id, TenantOf(u))
    IN /\ reports' = res.reports
       /\ expenses' = res.expenses
       /\ last' = Call("ExpenseDelete", res.err)
       /\ UNCHANGED <<procVars, authVars, taxis, deposits>>

TaxiHandler_Create(u, reqStatus) ==
    LET res == TaxiService_Create(taxis, TenantOf(u), reqStatus)
    IN /\ Len(taxis) < MaxTaxis
       /\ taxis' = res.taxis
       /\ last' = Call("TaxiCreate", res.err)
       /\ UNCHANGED <<procVars, authVars, reports, expenses, deposits>>

TaxiHandler_Get(u, id) ==
    LET res == TaxiService_GetByID(taxis, id, TenantOf(u))
    IN /\ taxis' = res.taxis
       /\ last' = Call("TaxiGet", res.err)
       /\ UNCHANGED <<procVars, authVars, reports, expenses, deposits>>

TaxiHandler_Update(u, id, reqStatus) ==
    LET res == TaxiService_Update(taxis, id, TenantOf(u), reqStatus)
    IN /\ taxis' = res.taxis
       /\ last' = Call("TaxiUpdate", res.err)
       /\ UNCHANGED <<procVars, authVars, reports, expenses, deposits>>

TaxiHandler_Delete(u, id) ==
    LET res == TaxiService_Delete(taxis, id, TenantOf(u))
    IN /\ taxis' = res.taxis
       /\ last' = Call("TaxiDelete", res.err)
       /\ UNCHANGED <<procVars, authVars, reports, expenses, deposits>>

Deposits_Create(u, amount) ==
    LET res == DepositService_Create(deposits, TenantOf(u), amount)
    IN /\ Len(deposits) < MaxDeposits
       /\ deposits' = res.deposits
       /\ last' = Call("DepositCreate", res.err)
       /\ UNCHANGED <<procVars, authVars, taxis, reports, expenses>>

Deposits_Get(u, id) ==
    LET res == DepositService_GetByID(deposits, id, TenantOf(u))
    IN /\ deposits' = res.deposits
       /\ last' = Call("DepositGet", res.err)
       /\ UNCHANGED <<procVars, authVars, taxis, reports, expenses>>

Deposits_Update(u, id, reqAmount) ==
    LET res == DepositService_Update(deposits, id, TenantOf(u), reqAmount)
    IN /\ deposits' = res.deposits
       /\ last' = Call("DepositUpdate", res.err)
       /\ UNCHANGED <<procVars, authVars, taxis, reports, expenses>>

Deposits_Delete(u, id) ==
    LET res == DepositService_Delete(deposits, id, TenantOf(u))
    IN /\ deposits' = res.deposits
       /\ last' = Call("DepositDelete", res.err)
       /\ UNCHANGED <<procVars, authVars, taxis, reports, expenses>>

\* ---------------------------------------------- authentication endpoints
\* POST /auth/login. token is the access token the client holds: the one
\* issued last.
Auth_Login(email, password) ==
    LET res == AuthService_Login(users, sessions, clock, email, password)
    IN /\ Len(sessions) < MaxSessions
       /\ sessions' = res.sessions
       /\ token' = IF res.err = "" THEN res.token ELSE token
       /\ last' = Call("Login", res.err)
       /\ UNCHANGED <<procVars, dataVars, users, clock, check>>

\* POST /auth/refresh
Auth_Refresh(refreshToken) ==
    LET res == AuthService_RefreshToken(users, sessions, clock, refreshToken)
    IN /\ sessions' = res.sessions
       /\ token' = IF res.err = "" THEN res.token ELSE token
       /\ last' = Call("Refresh", res.err)
       /\ UNCHANGED <<procVars, dataVars, users, clock, check>>

\* POST /auth/logout
Auth_Logout(refreshToken) ==
    LET res == AuthService_Logout(sessions, refreshToken)
    IN /\ sessions' = res.sessions
       /\ last' = Call("Logout", res.err)
       /\ UNCHANGED <<procVars, dataVars, users, clock, token, check>>

\* the Auth middleware in front of a protected route
Middleware_Auth(tokenString) ==
    LET res == AuthService_ValidateToken(users, clock, tokenString)
    IN /\ last' = Call("Auth", res.err)
       /\ UNCHANGED <<procVars, dataVars, authVars>>

\* PUT /admin/users/:id
AdminHandler_UpdateUser(id, req) ==
    LET res == AdminService_UpdateUser(users, id, req.tenant, req.permission,
                                       req.active)
    IN /\ users' = res.users
       /\ last' = Call("UpdateUser", res.err)
       /\ UNCHANGED <<procVars, dataVars, sessions, clock, token, check>>

\* DELETE /admin/users/:id
AdminHandler_DeleteUser(id) ==
    LET res == AdminService_DeleteUser(users, id)
    IN /\ users' = res.users
       /\ last' = Call("DeleteUser", res.err)
       /\ UNCHANGED <<procVars, dataVars, sessions, clock, token, check>>

\* time passes
Tick ==
    /\ clock < MaxClock
    /\ clock' = clock + 1
    /\ UNCHANGED <<procVars, dataVars, last, users, sessions, token, check>>

\* ------------------------------------------------------ permission checks
\* A caller of the permissions package evaluates one of its three checks on
\* check.mask and check.required; HasPermission takes the first required
\* value.
Check_HasPermission ==
    /\ check.fn = "none" /\ Len(check.required) = 1
    /\ check' = [check EXCEPT !.fn = "HasPermission",
                              !.result = HasPermission(check.mask, check.required[1])]
    /\ UNCHANGED <<procVars, dataVars, last, users, sessions, clock, token>>

Check_HasAnyPermission ==
    /\ check.fn = "none"
    /\ check' = [check EXCEPT !.fn = "HasAnyPermission",
                              !.result = HasAnyPermission(check.mask, check.required)]
    /\ UNCHANGED <<procVars, dataVars, last, users, sessions, clock, token>>

Check_HasAllPermissions ==
    /\ check.fn = "none"
    /\ check' = [check EXCEPT !.fn = "HasAllPermissions",
                              !.result = HasAllPermissions(check.mask, check.required)]
    /\ UNCHANGED <<procVars, dataVars, last, users, sessions, clock, token>>

\* ------------------------------------------------- concurrent requests
\* gin serves each request on a goroutine of its own. A report operation
\* loads the row with GetReportByID, tests and changes its copy, and later
\* stores the copy with UpdateReport; another goroutine may run in between.
\* inflight[p] is the copy goroutine p holds, Idle when it holds none.
Processes == {1, 2}

Idle == [op |-> "", id |-> 0, by |-> 0, row |-> NewReport(0, 0, 0, 0, 0)]

\* db.Save(report): every column of the row is overwritten with the copy
UpdateReport(reps, id, row) == [reps EXCEPT ![id] = row]

\* The part of a service call up to, not including, UpdateReport: res is
\* what the call computes from the tables as they are now. A refused call
\* answers at once; otherwise the goroutine keeps its copy of the row.
ReadAndCheck(p, op, u, id, res) ==
    /\ IF res.err # ""
          THEN /\ last' = Call(op, res.err)
               /\ UNCHANGED inflight
       ELSE /\ inflight' = [inflight EXCEPT
                               ![p] = [op |-> op, id |-> id, by |-> u,
                                       row |-> res.reports[id]]]
            /\ UNCHANGED last
    /\ UNCHANGED <<dataVars, authVars, env, roleMasks>>

ReportService_Update_Read(p, u, permission, id, reqWeekStartDate, reqEarnings) ==
    /\ inflight[p] = Idle
    /\ ReadAndCheck(p, "ReportUpdate", u, id,
                 ReportService_Update(reports, expenses, id, TenantOf(u), u,
                                      permission, reqWeekStartDate, reqEarnings))

ReportService_Submit_Read(p, u, id, now) ==
    /\ inflight[p] = Idle
    /\ ReadAndCheck(p, "ReportSubmit", u, id,
                 ReportService_Submit(reports, id, TenantOf(u), u, now))

ReportService_Approve_Read(p, u, permission, id, now) ==
    /\ inflight[p] = Idle
    /\ ReadAndCheck(p, "ReportApprove", u, id,
                 ReportService_Approve(reports, id, TenantOf(u), u, permission, now))

ReportService_Reject_Read(p, u, id) ==
    /\ inflight[p] = Idle
    /\ ReadAndCheck(p, "ReportReject", u, id,
                 ReportService_Reject(reports, id, TenantOf(u)))

\* ExpenseService.Create: the expense is inserted, then the report is loaded
\* and its total computed; the report is stored later. A call that links no
\* report of the caller's tenant stores no report and answers at once.
ExpenseService_Create_Read(p, u, reportID, amount) ==
    LET res == ExpenseService_Create(reports, expenses, TenantOf(u), u, reportID,
                                     amount)
        stores == /\ res.err = ""
                  /\ reportID # Nil
                  /\ Found(reports, reportID)
                  /\ reports[reportID].tenant = TenantOf(u)
    IN /\ inflight[p] = Idle
       /\ Len(expenses) < MaxExpenses
       /\ expenses' = res.expenses
       /\ IF stores
             THEN /\ inflight' = [inflight EXCEPT
                                     ![p] = [op |-> "ExpenseCreate", id |-> reportID,
                                             by |-> u, row |-> res.reports[reportID]]]
                  /\ UNCHANGED last
          ELSE /\ last' = Call("ExpenseCreate", res.err)
               /\ UNCHANGED inflight
       /\ UNCHANGED <<authVars, taxis, reports, deposits, env, roleMasks>>

\* s.repo.UpdateReport(report) of goroutine p, and the answer of its call
Repository_UpdateReport(p) ==
    /\ inflight[p] # Idle
    /\ reports' = UpdateReport(reports, inflight[p].id, inflight[p].row)
    /\ last' = Call(inflight[p].op, "")
    /\ inflight' = [inflight EXCEPT ![p] = Idle]
    /\ UNCHANGED <<authVars, taxis, expenses, deposits, env, roleMasks>>

\* main() loads the configuration from the environment and installs the
\* role masks, once, before the router serves a request
Main_SetPermissionMasks ==
    /\ last.op = "none"
    /\ LET cfg == PermissionsConfig(env)
       IN roleMasks' = SetPermissionMasks(cfg.admin, cfg.owner, cfg.manager,
                                          cfg.mechanic, cfg.driver)
    /\ last' = Call("SetPermissionMasks", "")
    /\ UNCHANGED <<dataVars, authVars, env, inflight>>

\* -------------------------------------------------------- specifications
\* the process environment with none of the mask variables set
EnvKeys == {"JWT_ADMIN_PERMISSION_MASK", "JWT_OWNER_PERMISSION_MASK",
            "JWT_MANAGER_PERMISSION_MASK", "JWT_MECHANIC_PERMISSION_MASK",
            "JWT_DRIVER_PERMISSION_MASK"}

NoOverrides == [k \in EnvKeys |-> << >>]

\* The state main() leaves before the first request: no mask variable in
\* the environment, the role masks of the configuration defaults installed,
\* no request in progress.
ProcInit ==
    /\ env = NoOverrides
    /\ roleMasks = PermissionsConfig(NoOverrides)
    /\ inflight = [p \in Processes |-> Idle]

\* Spec: the report lifecycle. The database holds one taxi per tenant, as
\* after two TaxiService.Create calls; no report, expense or deposit yet.
SeededTaxis ==
    << [tenant |-> 1, status |-> "active", deleted |-> FALSE],
       [tenant |-> 2, status |-> "active", deleted |-> FALSE] >>

\* The users table holds a driver and an owner of tenant 1 and a driver of
\* tenant 2, all active, as AdminService.CreateUser stores them; nobody has
\* logged in yet.
SeededUsers ==
    << [tenant |-> 1, email |-> "u1", passwordHash |-> Hash("pw"),
        permission |-> PermissionDriver, active |-> TRUE, deleted |-> FALSE],
       [tenant |-> 1, email |-> "u2", passwordHash |-> Hash("pw"),
        permission |-> PermissionOwner, active |-> TRUE, deleted |-> FALSE],
       [tenant |-> 2, email |-> "u3", passwordHash |-> Hash("pw"),
        permission |-> PermissionDriver, active |-> TRUE, deleted |-> FALSE] >>

NoCheck == [fn |-> "none", mask |-> {}, required |-> << >>, result |-> FALSE]

AuthInit ==
    /\ users = SeededUsers
    /\ sessions = << >>
    /\ clock = 0
    /\ token = NoToken
    /\ check = NoCheck

Init ==
    /\ taxis = SeededTaxis
    /\ reports = << >>
    /\ expenses = << >>
    /\ deposits = << >>
    /\ last = Call("none", "")
    /\ AuthInit
    /\ ProcInit

Next ==
    \/ \E u \in Users, t \in TaxiIDs, e \in Amounts : ReportHandler_Create(u, t, 1, e)
    \/ \E u \in Users, id \in ReportIDs : ReportHandler_Get(u, id)
    \/ \E u \in Users, p \in Masks, id \in ReportIDs, e \in {0} \cup Amounts :
          ReportHandler_Update(u, p, id, Nil, e)
    \/ \E u \in Users, id \in ReportIDs, now \in Times : ReportHandler_Submit(u, id, now)
    \/ \E u \in Users, p \in Masks, id \in ReportIDs, now \in Times :
          ReportHandler_Approve(u, p, id, now)
    \/ \E u \in Users, id \in ReportIDs : ReportHandler_Reject(u, id)
    \/ \E u \in Users, p \in Masks, id \in ReportIDs : ReportHandler_Delete(u, p, id)
    \/ \E u \in Users, id \in TaxiIDs : TaxiHandler_Delete(u, id)

Spec == Init /\ [][Next]_vars

\* SpecExpenses: expenses and the report total they roll up into. The callers
\* are one user per tenant with the driver and the owner mask.
ExpenseUsers == {1, 3}
ExpenseMasks == {PermissionDriver, PermissionOwner}

NextExpenses ==
    \/ \E u \in ExpenseUsers, t \in TaxiIDs : ReportHandler_Create(u, t, 1, 1)
    \/ \E u \in ExpenseUsers, p \in ExpenseMasks, id \in ReportIDs :
          ReportHandler_Update(u, p, id, Nil, 0)
    \/ \E u \in ExpenseUsers, id \in ReportIDs : ReportHandler_Submit(u, id, 1)
    \/ \E u \in ExpenseUsers, p \in ExpenseMasks, id \in ReportIDs :
          ReportHandler_Approve(u, p, id, 2)
    \/ \E u \in ExpenseUsers, id \in ReportIDs : ReportHandler_Reject(u, id)
    \/ \E u \in ExpenseUsers, p \in ExpenseMasks, id \in ReportIDs :
          ReportHandler_Delete(u, p, id)
    \/ \E u \in ExpenseUsers, r \in {Nil} \cup ReportIDs, a \in Amounts :
          ExpenseHandler_Create(u, r, a)
    \/ \E u \in ExpenseUsers, id \in ExpenseIDs, a \in {0} \cup Amounts :
          ExpenseHandler_Update(u, id, a)
    \/ \E u \in ExpenseUsers, id \in ExpenseIDs : ExpenseHandler_Delete(u, id)

SpecExpenses == Init /\ [][NextExpenses]_vars

\* SpecTenant: tenant isolation of the four tenant-scoped entity kinds. The
\* database starts empty; user 1 of tenant 1 creates the entities, and user 1
\* and user 3 of tenant 2 read, update and delete them.
TenantUsers == {1, 3}
TenantCreators == {1}

InitTenant ==
    /\ taxis = << >>
    /\ reports = << >>
    /\ expenses = << >>
    /\ deposits = << >>
    /\ last = Call("none", "")
    /\ AuthInit
    /\ ProcInit

NextTenant ==
    \/ \E u \in TenantCreators : TaxiHandler_Create(u, "")
    \/ \E u \in TenantUsers, id \in TaxiIDs : TaxiHandler_Get(u, id)
    \/ \E u \in TenantUsers, id \in TaxiIDs : TaxiHandler_Update(u, id, "maintenance")
    \/ \E u \in TenantUsers, id \in TaxiIDs : TaxiHandler_Delete(u, id)
    \/ \E u \in TenantCreators : Deposits_Create(u, 1)
    \/ \E u \in TenantUsers, id \in DepositIDs : Deposits_Get(u, id)
    \/ \E u \in TenantUsers, id \in DepositIDs : Deposits_Update(u, id, 2)
    \/ \E u \in TenantUsers, id \in DepositIDs : Deposits_Delete(u, id)
    \/ \E u \in TenantCreators : ExpenseHandler_Create(u, Nil, 1)
    \/ \E u \in TenantUsers, id \in ExpenseIDs : ExpenseHandler_Get(u, id)
    \/ \E u \in TenantUsers, id \in ExpenseIDs : ExpenseHandler_Update(u, id, 0)
    \/ \E u \in TenantUsers, id \in ExpenseIDs : ExpenseHandler_Delete(u, id)
    \/ \E u \in TenantCreators, t \in TaxiIDs : ReportHandler_Create(u, t, 1, 1)
    \/ \E u \in TenantUsers, id \in ReportIDs : ReportHandler_Get(u, id)
    \/ \E u \in TenantUsers, id \in ReportIDs :
          ReportHandler_Update(u, PermissionOwner, id, Nil, 0)
    \/ \E u \in TenantUsers, id \in ReportIDs : ReportHandler_Submit(u, id, 1)
    \/ \E u \in TenantUsers, id \in ReportIDs :
          ReportHandler_Approve(u, PermissionOwner, id, 2)
    \/ \E u \in TenantUsers, id \in ReportIDs : ReportHandler_Reject(u, id)
    \/ \E u \in TenantUsers, id \in ReportIDs :
          ReportHandler_Delete(u, PermissionOwner, id)

SpecTenant == InitTenant /\ [][NextTenant]_vars

\* SpecAuth: login, refresh, logout and token validation while an admin
\* updates and deletes users and time passes.
LoginEmails == {"u1", "u2", "nobody"}
LoginPasswords == {"pw", "bad"}

\* a refresh token no session was ever stored for
UnknownRefreshToken ==
    [user |-> 3, email |-> "", permission |-> PermissionDriver,
     iat |-> 0, exp |-> RefreshExpiration, key |-> Secret]

\* the refresh tokens a client may present: those of the stored sessions and
\* an unknown one
PresentedRefreshTokens ==
    {sessions[i].token : i \in DOMAIN sessions} \cup {UnknownRefreshToken}

\* a token signed with another key
ForgedToken ==
    [user |-> 2, email |-> "u2", permission |-> PermissionOwner,
     iat |-> 0, exp |-> MaxClock + 1, key |-> "forged"]

PresentedAccessTokens == {token, ForgedToken}

\* the admin's update requests: deactivate, reactivate, move to tenant 2 as
\* owner, move to a tenant that does not exist
UpdateUserRequests ==
    { [tenant |-> 0, permission |-> {}, active |-> {FALSE}],
      [tenant |-> 0, permission |-> {}, active |-> {TRUE}],
      [tenant |-> 2, permission |-> PermissionOwner, active |-> {}],
      [tenant |-> 3, permission |-> {}, active |-> {}] }

NextAuth ==
    \/ \E e \in LoginEmails, pw \in LoginPasswords : Auth_Login(e, pw)
    \/ \E t \in PresentedRefreshTokens : Auth_Refresh(t)
    \/ \E t \in PresentedRefreshTokens : Auth_Logout(t)
    \/ \E t \in PresentedAccessTokens : Middleware_Auth(t)
    \/ \E req \in UpdateUserRequests : AdminHandler_UpdateUser(1, req)
    \/ AdminHandler_DeleteUser(2)
    \/ Tick

SpecAuth == Init /\ [][NextAuth]_vars

\* SpecPerm: the three checks of the permissions package on every mask and
\* every list of required values below. A mask is a value of the INTEGER
\* column users.permission widened to int (so bits 31..63 are all set or all
\* clear) or the configured admin mask.
CheckMasks ==
    (SUBSET {0, 1, 2}) \cup { PermissionMechanic, PermissionOwner, PermissionAdmin,
                              MinusOne, 31..63, 1..63 }

\* required values: single bits, and the driver and owner role masks
CheckRequired == { {0}, {1}, {2}, {20}, PermissionDriver, PermissionOwner }

CheckLists ==
    {<< >>} \cup {<<r>> : r \in CheckRequired}
            \cup {<<r1, r2>> : r1 \in CheckRequired, r2 \in CheckRequired}

InitPerm ==
    /\ taxis = << >>
    /\ reports = << >>
    /\ expenses = << >>
    /\ deposits = << >>
    /\ last = Call("none", "")
    /\ users = SeededUsers
    /\ sessions = << >>
    /\ clock = 0
    /\ token = NoToken
    /\ \E m \in CheckMasks, S \in CheckLists :
          check = [fn |-> "none", mask |-> m, required |-> S, result |-> FALSE]
    /\ ProcInit

NextPerm ==
    \/ Check_HasPermission
    \/ Check_HasAnyPermission
    \/ Check_HasAllPermissions

SpecPerm == InitPerm /\ [][NextPerm]_vars

\* SpecList: listing reports. Three drafts are stored, as after a Create by
\* each user; the callers act with the mask of their users row, edit week
\* start dates and delete reports, and the admin moves user 1 to tenant 2.
SeededReports ==
    << NewReport(1, 1, 1, 1, 1), NewReport(1, 1, 2, 2, 1), NewReport(2, 2, 3, 1, 1) >>

ListIDs == 1..3

MoveToTenant2 == [tenant |-> 2, permission |-> {}, active |-> {}]

InitList ==
    /\ taxis = SeededTaxis
    /\ reports = SeededReports
    /\ expenses = << >>
    /\ deposits = << >>
    /\ last = Call("none", "")
    /\ AuthInit
    /\ ProcInit

NextList ==
    \/ \E u \in Users : ReportHandler_List(u, users[u].permission)
    \/ \E u \in Users, id \in ListIDs, w \in Weeks :
          ReportHandler_Update(u, users[u].permission, id, w, 0)
    \/ \E u \in Users, id \in ListIDs :
          ReportHandler_Delete(u, users[u].permission, id)
    \/ AdminHandler_UpdateUser(1, MoveToTenant2)

SpecList == InitList /\ [][NextList]_vars

\* SpecStart: process start. The database is as in Spec, the package
\* variables hold the values of their declaration, and each of the five mask
\* variables of the environment is unset, a decimal literal or a hexadecimal
\* literal.
EnvValues == { << >>, <<"1", "6">>, <<"0", "x", "7", "0">> }

InitStart ==
    /\ taxis = SeededTaxis
    /\ reports = << >>
    /\ expenses = << >>
    /\ deposits = << >>
    /\ last = Call("none", "")
    /\ AuthInit
    /\ env \in [EnvKeys -> EnvValues]
    /\ roleMasks = PackageMasks
    /\ inflight = [p \in Processes |-> Idle]

NextStart == Main_SetPermissionMasks

SpecStart == InitStart /\ [][NextStart]_vars

\* SpecRace: two request goroutines working on the reports of tenant 1. The
\* callers are the driver and the owner of tenant 1, each with the mask the
\* users table holds for them.
RaceUsers == {1, 2}
RaceOwners == {2}

NextRace ==
    \/ \E u \in RaceUsers : ReportHandler_Create(u, 1, 1, 1)
    \/ \E p \in Processes, u \in RaceUsers, id \in ReportIDs :
          ReportService_Update_Read(p, u, users[u].permission, id, Nil, 2)
    \/ \E p \in Processes, u \in RaceUsers, id \in ReportIDs :
          ReportService_Submit_Read(p, u, id, 1)
    \/ \E p \in Processes, u \in RaceOwners, id \in ReportIDs :
          ReportService_Approve_Read(p, u, users[u].permission, id, 2)
    \/ \E p \in Processes, u \in RaceOwners, id \in ReportIDs :
          ReportService_Reject_Read(p, u, id)
    \/ \E p \in Processes, u \in RaceUsers, r \in ReportIDs :
          ExpenseService_Create_Read(p, u, r, 1)
    \/ \E p \in Processes : Repository_UpdateReport(p)

SpecRace == Init /\ [][NextRace]_vars

\* ================================================================ claims
\* owner or admin capability: the owner mask, or the admin sentinel in
\* either of its forms
IsOwnerOrAdmin(p) == p = PermissionOwner \/ p = PermissionAdmin \/ p = MinusOne

OwnReport(u, id) == Found(reports, id) /\ reports[id].tenant = TenantOf(u)

ForeignReport(u, id) == Found(reports, id) /\ reports[id].tenant # TenantOf(u)

\* C1: Approve succeeds only for a caller holding the owner mask or the admin
\* sentinel: with any other mask, Approve on a submitted report of the
\* caller's tenant fails and leaves the report as it was.
C1_ApproveNeedsOwnerOrAdmin ==
    \A u \in Users, p \in Masks, id \in DOMAIN reports, now \in Times :
        (OwnReport(u, id) /\ reports[id].status = "submitted" /\ ~IsOwnerOrAdmin(p))
        => LET res == ReportService_Approve(reports, id, TenantOf(u), u, p, now)
           IN res.err # "" /\ res.reports = reports

\* C2: Delete removes a report of the caller's tenant only when the caller is
\* owner/admin, or holds exactly the driver mask, is the report's driver and
\* the report is a draft; every other call fails with unauthorized or
\* can-only-delete-draft and the report stays stored.
C2_DeleteOnlyOwnerAdminOrOwnDraft ==
    \A u \in Users, p \in Masks, id \in DOMAIN reports :
        OwnReport(u, id)
        => LET res == ReportService_Delete(reports, id, TenantOf(u), u, p)
               allowed == \/ IsOwnerOrAdmin(p)
                          \/ /\ p = PermissionDriver
                             /\ reports[id].driver = u
                             /\ reports[id].status = "draft"
           IN IF allowed
                 THEN res.err = "" /\ res.reports = SoftDelete(reports, id)
              ELSE /\ res.err \in {"unauthorized", "can only delete draft reports"}
                   /\ res.reports = reports

\* C3: whatever service operation runs, the status of a report that is not
\* deleted either stays or moves along draft -> submitted, submitted ->
\* approved or submitted -> rejected.
StatusEdges ==
    { <<"draft", "submitted">>, <<"submitted", "approved">>,
      <<"submitted", "rejected">> }

StatusStep ==
    \A id \in DOMAIN reports :
        (~reports[id].deleted /\ ~reports'[id].deleted)
        => \/ reports'[id].status = reports[id].status
           \/ <<reports[id].status, reports'[id].status>> \in StatusEdges

C3_StatusMovesForward == [][StatusStep]_vars

\* an expense operation has just recalculated the total of a rejected report
C3_Witness ==
    /\ last.op \in {"ExpenseCreate", "ExpenseUpdate", "ExpenseDelete"}
    /\ last.err = ""
    /\ \E id \in DOMAIN reports :
          /\ ~reports[id].deleted
          /\ reports[id].status = "rejected"
          /\ reports[id].total > 0

\* C4: in every state, the total_expenses of each report that is not deleted
\* is the sum of the amounts of the non-deleted expenses whose report_id is
\* that report, whichever tenant's caller created them.
C4_TotalIsSumOfLinkedExpenses ==
    \A id \in DOMAIN reports :
        ~reports[id].deleted
        => reports[id].total =
              SumAmounts(expenses, {i \in DOMAIN expenses :
                                       /\ ~expenses[i].deleted
                                       /\ expenses[i].reportID = id})

\* C5: a call on a report, taxi, expense or deposit of another tenant fails
\* with the entity's not-found error and changes nothing.
C5_ForeignTenantNotFound ==
    \A u \in Users :
        /\ \A id \in DOMAIN reports :
              ForeignReport(u, id)
              => /\ ReportService_GetByID(reports, id, TenantOf(u)).err
                       = "report not found"
                 /\ \A p \in Masks, w \in {Nil} \cup Weeks, e \in {0} \cup Amounts :
                       ReportService_Update(reports, expenses, id, TenantOf(u), u, p, w, e)
                          = [err |-> "report not found", reports |-> reports]
                 /\ \A now \in Times :
                       ReportService_Submit(reports, id, TenantOf(u), u, now)
                          = [err |-> "report not found", reports |-> reports]
                 /\ ReportService_Reject(reports, id, TenantOf(u))
                       = [err |-> "report not found", reports |-> reports]
                 /\ \A p \in Masks :
                       ReportService_Delete(reports, id, TenantOf(u), u, p)
                          = [err |-> "report not found", reports |-> reports]
        /\ \A id \in DOMAIN taxis :
              (Found(taxis, id) /\ taxis[id].tenant # TenantOf(u))
              => /\ TaxiService_GetByID(taxis, id, TenantOf(u)).err = "taxi not found"
                 /\ \A st \in {"", "maintenance", "inactive"} :
                       TaxiService_Update(taxis, id, TenantOf(u), st)
                          = [err |-> "taxi not found", taxis |-> taxis]
                 /\ TaxiService_Delete(taxis, id, TenantOf(u))
                       = [err |-> "taxi not found", taxis |-> taxis]
        /\ \A id \in DOMAIN expenses :
              (Found(expenses, id) /\ expenses[id].tenant # TenantOf(u))
              => LET same == [err |-> "expense not found", reports |-> reports,
                              expenses |-> expenses]
                 IN /\ ExpenseService_GetByID(reports, expenses, id, TenantOf(u)) = same
                    /\ \A a \in {0} \cup Amounts :
                          ExpenseService_Update(reports, expenses, id, TenantOf(u), a)
                             = same
                    /\ ExpenseService_Delete(reports, expenses, id, TenantOf(u)) = same
        /\ \A id \in DOMAIN deposits :
              (Found(deposits, id) /\ deposits[id].tenant # TenantOf(u))
              => LET same == [err |-> "deposit not found", deposits |-> deposits]
                 IN /\ DepositService_GetByID(deposits, id, TenantOf(u)) = same
                    /\ \A a \in {0} \cup Amounts :
                          DepositService_Update(deposits, id, TenantOf(u), a) = same
                    /\ DepositService_Delete(deposits, id, TenantOf(u)) = same

\* a caller of another tenant has just been refused an approved report while
\* a taxi, an expense and a deposit of that tenant exist as well
C5_Witness ==
    /\ last = Call("ReportDelete", "report not found")
    /\ \E id \in DOMAIN reports : ForeignReport(3, id) /\ reports[id].status = "approved"
    /\ \E id \in DOMAIN taxis : Found(taxis, id) /\ taxis[id].tenant # TenantOf(3)
    /\ \E id \in DOMAIN expenses : Found(expenses, id) /\ expenses[id].tenant # TenantOf(3)
    /\ \E id \in DOMAIN deposits : Found(deposits, id) /\ deposits[id].tenant # TenantOf(3)

\* the table as it would be had the row never been inserted
WithoutRow(table, id) == [i \in (DOMAIN table) \ {id} |-> table[i]]

\* C6: the error a caller gets for an id that exists in another tenant is the
\* error the caller gets when no row has that id at all.
C6_ForeignLooksAbsent ==
    \A u \in Users, id \in DOMAIN reports :
        ForeignReport(u, id)
        => /\ ReportService_GetByID(reports, id, TenantOf(u)).err
                 = ReportService_GetByID(WithoutRow(reports, id), id, TenantOf(u)).err
           /\ \A p \in Masks :
                 /\ ReportService_Update(reports, expenses, id, TenantOf(u), u, p, Nil, 0).err
                       = ReportService_Update(WithoutRow(reports, id), expenses, id,
                                              TenantOf(u), u, p, Nil, 0).err
                 /\ ReportService_Delete(reports, id, TenantOf(u), u, p).err
                       = ReportService_Delete(WithoutRow(reports, id), id,
                                              TenantOf(u), u, p).err

\* C7: Create stores a new draft report with total 0, the caller's tenant and
\* the caller as driver when the taxi exists in the caller's tenant; else it
\* fails with taxi-not-found and stores nothing.
C7_CreateDraftForOwnTaxi ==
    /\ \A u \in Users, t \in TaxiIDs, w \in Weeks, e \in Amounts :
          LET res == ReportService_Create(taxis, reports, TenantOf(u), u, t, w, e)
          IN IF Found(taxis, t) /\ taxis[t].tenant = TenantOf(u)
                THEN /\ res.err = ""
                     /\ Len(res.reports) = Len(reports) + 1
                     /\ SubSeq(res.reports, 1, Len(reports)) = reports
                     /\ LET r == res.reports[Len(reports) + 1]
                        IN /\ r.status = "draft" /\ r.total = 0
                           /\ r.tenant = TenantOf(u) /\ r.driver = u
                           /\ r.taxi = t /\ r.weekStart = w /\ r.earnings = e
                           /\ ~r.deleted
             ELSE res.err = "taxi not found" /\ res.reports = reports
    /\ \A id \in DOMAIN reports :
          /\ reports[id].taxi \in DOMAIN taxis
          /\ taxis[reports[id].taxi].tenant = reports[id].tenant
          /\ reports[id].tenant = TenantOf(reports[id].driver)
    /\ last.op = "ReportCreate" => last.err \in {"", "taxi not found"}

\* a Create has just stored a draft report for a taxi of the caller's tenant
C7_Witness ==
    /\ last = Call("ReportCreate", "")
    /\ \E id \in DOMAIN reports :
          /\ reports[id].status = "draft" /\ reports[id].total = 0
          /\ taxis[reports[id].taxi].tenant = reports[id].tenant

C9_ApproveSubmittedOnce ==
    /\ \A u \in Users, p \in Masks, id \in DOMAIN reports, now \in Times :
          (OwnReport(u, id) /\ IsOwnerOrAdmin(p))
          => LET res == ReportService_Approve(reports, id, TenantOf(u), u, p, now)
             IN IF reports[id].status = "submitted"
                   THEN /\ res.err = ""
                        /\ res.reports = [reports EXCEPT ![id].status = "approved",
                                                         ![id].approvedAt = now,
                                                         ![id].approvedBy = u]
                ELSE /\ res.err = "report must be submitted before approval"
                     /\ res.reports = reports
    /\ \A id \in DOMAIN reports :
          reports[id].status = "approved"
          <=> (reports[id].approvedAt # Nil /\ reports[id].approvedBy # Nil)

\* an approve of an already approved report has just been refused
C9_Witness ==
    /\ last = Call("ReportApprove", "report must be submitted before approval")
    /\ \E id \in DOMAIN reports :
          ~reports[id].deleted /\ reports[id].status = "approved"

C11_RejectSubmittedOnly ==
    \A u \in Users, id \in DOMAIN reports :
        OwnReport(u, id)
        => LET res == ReportService_Reject(reports, id, TenantOf(u))
           IN IF reports[id].status = "submitted"
                 THEN /\ res.err = ""
                      /\ res.reports = [reports EXCEPT ![id].status = "rejected"]
              ELSE /\ res.err = "report must be submitted before rejection"
                   /\ res.reports = reports

\* a second Reject of a report already rejected has just been refused
C11_Witness ==
    /\ last = Call("ReportReject", "report must be submitted before rejection")
    /\ \E id \in DOMAIN reports :
          ~reports[id].deleted /\ reports[id].status = "rejected"

\* the admin sentinel: the configured admin mask or -1
IsAdmin(m) == m = PermissionAdmin \/ m = MinusOne

\* C12: HasPermission(m, r) is true iff m is the admin sentinel or m & r # 0;
\* HasAnyPermission(m, S) is true iff m is admin or some r in S has
\* m & r # 0; both admin representations pass every check.
C12_HasPermissionIsOverlapOrAdmin ==
    LET m == check.mask
        S == check.required
    IN /\ check.fn = "HasPermission"
             => (check.result <=> (IsAdmin(m) \/ (m \cap S[1]) # {}))
       /\ check.fn = "HasAnyPermission"
             => (check.result <=>
                    (IsAdmin(m) \/ \E i \in 1..Len(S) : (m \cap S[i]) # {}))
       /\ \A a \in {PermissionAdmin, MinusOne}, r \in CheckRequired :
             HasPermission(a, r) /\ HasAnyPermission(a, <<r>>)
       /\ (check.fn \in {"HasPermission", "HasAnyPermission"} /\ IsAdmin(m))
             => check.result

\* a negative mask that is not -1 has just been refused for lack of overlap
C12_Witness ==
    /\ check.fn = "HasAnyPermission"
    /\ check.mask = 31..63
    /\ check.required = <<PermissionDriver, {2}>>
    /\ check.result = FALSE

\* C13: HasAllPermissions(m, S) is true iff m is admin or every bit set in
\* any element of S is also set in m.
C13_HasAllPermissionsIsContainment ==
    check.fn = "HasAllPermissions"
    => (check.result <=>
           (IsAdmin(check.mask)
            \/ \A i \in 1..Len(check.required) : check.required[i] \subseteq check.mask))

\* C14: a Login that fails issues no token and leaves the sessions table as
\* it was; a wrong password yields invalid-credentials, a correct password on
\* an inactive account yields account-inactive, an unknown email yields
\* invalid-credentials.
C14_FailedLoginStoresNothing ==
    \A e \in LoginEmails, pw \in LoginPasswords :
        LET res == AuthService_Login(users, sessions, clock, e, pw)
            ids == {i \in DOMAIN users : ~users[i].deleted /\ users[i].email = e}
        IN /\ res.err # "" => (res.sessions = sessions /\ res.token = NoToken)
           /\ ids = {} => res.err = "invalid credentials"
           /\ \A i \in ids :
                 /\ users[i].passwordHash # Hash(pw) => res.err = "invalid credentials"
                 /\ (users[i].passwordHash = Hash(pw) /\ ~users[i].active)
                       => res.err = "user account is inactive"

\* an inactive user holding a session has just been refused a login
C14_Witness ==
    /\ last = Call("Login", "user account is inactive")
    /\ \E i \in DOMAIN sessions : ~users[sessions[i].user].active

\* C15: a Login with a password that does not match answers the same whether
\* or not a user with the email exists, active or inactive.
C15_LoginHidesEmailExistence ==
    \A id \in DOMAIN users, pw \in LoginPasswords :
        (Found(users, id) /\ ~CompareHashAndPassword(users[id].passwordHash, pw))
        => AuthService_Login(users, sessions, clock, users[id].email, pw)
              = AuthService_Login(WithoutRow(users, id), sessions, clock,
                                  users[id].email, pw)

\* a login has just been refused while an inactive and an active user exist
C15_Witness ==
    /\ last = Call("Login", "invalid credentials")
    /\ Found(users, 1) /\ ~users[1].active
    /\ Found(users, 2) /\ users[2].active

\* access tokens the service may have signed: any user, either role mask the
\* user may have had, any issue time up to now
SignedAccessTokens ==
    {[user |-> id, email |-> users[id].email, permission |-> p,
      iat |-> t, exp |-> t + JWTExpiration, key |-> Secret] :
        id \in DOMAIN users, p \in {PermissionDriver, PermissionOwner}, t \in 0..clock}

\* C16: validating an unexpired access token answers from the live user row:
\* the request context gets the user's current permission mask and tenant,
\* and the token is refused with account-inactive while the user's active
\* flag is false.
C16_ValidateTokenReadsLiveUser ==
    \A t \in SignedAccessTokens \cup {token} :
        (t.key = Secret /\ clock < t.exp /\ Found(users, t.user))
        => LET res == AuthService_ValidateToken(users, clock, t)
           IN IF users[t.user].active
                 THEN /\ res.err = ""
                      /\ RequestContext(users, res.userID)
                            = [userID |-> t.user, tenantID |-> users[t.user].tenant,
                               permission |-> users[t.user].permission]
              ELSE res.err = "user account is inactive" /\ res.userID = Nil

\* the token of a user since moved, promoted and deactivated has just been
\* refused
C16_Witness ==
    /\ last = Call("Auth", "user account is inactive")
    /\ token # NoToken /\ clock < token.exp
    /\ token.permission # users[token.user].permission
    /\ users[token.user].tenant = 2

\* the live, unexpired sessions stored for a refresh token
LiveSessions(t) ==
    {i \in DOMAIN sessions : /\ ~sessions[i].deleted
                             /\ sessions[i].token = t
                             /\ sessions[i].expiresAt > clock}

\* C17 as stated: RefreshToken(t) succeeds iff a non-deleted session with
\* token t exists and has not expired, and leaves the sessions unchanged.
C17_RefreshIffLiveSession ==
    \A t \in PresentedRefreshTokens :
        LET res == AuthService_RefreshToken(users, sessions, clock, t)
        IN /\ res.err = "" <=> LiveSessions(t) # {}
           /\ res.sessions = sessions

\* C17, amended: RefreshToken(t) succeeds iff a non-deleted, unexpired session
\* with token t exists and the session's user row is still stored; without
\* such a session it fails with invalid-refresh-token, with a deleted user it
\* fails with user-not-found; succeeding or failing it leaves the sessions
\* unchanged, so the same token can be used again.
C17_RefreshIffLiveSessionOfStoredUser ==
    \A t \in PresentedRefreshTokens :
        LET res == AuthService_RefreshToken(users, sessions, clock, t)
        IN /\ res.err = ""
                <=> \E i \in LiveSessions(t) : Found(users, sessions[i].user)
           /\ LiveSessions(t) = {} => res.err = "invalid refresh token"
           /\ (\E i \in LiveSessions(t) : ~Found(users, sessions[i].user))
                 => res.err = "user not found"
           /\ res.sessions = sessions
           /\ res.err = ""
                 => AuthService_RefreshToken(users, res.sessions, clock, t) = res

\* a refresh has just issued an access token later than the login that
\* stored the session, and the session is still live
C17_Witness ==
    /\ last = Call("Refresh", "")
    /\ \E i \in DOMAIN sessions :
          /\ ~sessions[i].deleted /\ sessions[i].expiresAt > clock
          /\ sessions[i].user = token.user
          /\ sessions[i].token.iat < token.iat

\* C18: Logout(t) deletes the session with token t and no other, returns no
\* error whether or not such a session exists, and repeated changes nothing
\* more; once the session of t is deleted, RefreshToken(t) fails with
\* invalid-refresh-token now and at every later time.
C18_LogoutIdempotentAndFinal ==
    /\ \A t \in PresentedRefreshTokens :
          LET res == AuthService_Logout(sessions, t)
          IN /\ res.err = ""
             /\ DOMAIN res.sessions = DOMAIN sessions
             /\ \A i \in DOMAIN sessions :
                   IF sessions[i].token = t
                      THEN res.sessions[i] = [sessions[i] EXCEPT !.deleted = TRUE]
                   ELSE res.sessions[i] = sessions[i]
             /\ (\A i \in DOMAIN sessions :
                    sessions[i].token = t => sessions[i].deleted)
                   => res.sessions = sessions
             /\ AuthService_Logout(res.sessions, t) = res
             /\ AuthService_RefreshToken(users, res.sessions, clock, t).err
                   = "invalid refresh token"
    /\ \A i \in DOMAIN sessions :
          sessions[i].deleted
          => \A c \in clock..MaxClock :
                AuthService_RefreshToken(users, sessions, c, sessions[i].token).err
                   = "invalid refresh token"

\* a Logout has just been served; one session is deleted before its expiry
\* and another one is still live
C18_Witness ==
    /\ last = Call("Logout", "")
    /\ \E i \in DOMAIN sessions :
          sessions[i].deleted /\ sessions[i].expiresAt > clock
    /\ \E i \in DOMAIN sessions :
          ~sessions[i].deleted /\ sessions[i].expiresAt > clock

\* C19: for a report of the caller's tenant, whatever expenses are linked to
\* it, creating an expense of amount a linked to the report raises its total
\* by exactly a, and deleting that expense brings the total back.
C19_ExpenseCreateDeleteRoundTrip ==
    \A u \in ExpenseUsers, id \in DOMAIN reports, a \in Amounts :
        OwnReport(u, id)
        => LET c == ExpenseService_Create(reports, expenses, TenantOf(u), u, id, a)
               d == ExpenseService_Delete(c.reports, c.expenses, Len(c.expenses),
                                          TenantOf(u))
           IN /\ c.err = "" /\ Len(c.expenses) = Len(expenses) + 1
              /\ c.reports[id].total = reports[id].total + a
              /\ d.err = ""
              /\ d.reports[id].total = reports[id].total

\* C20: List with the driver mask returns exactly the stored reports whose
\* driver is the caller, all of them of the caller's tenant; with any other
\* mask exactly the stored reports of the caller's tenant; either way in
\* descending order of week start date.
C20_ListOwnOrTenantNewestFirst ==
    \A u \in Users, p \in Masks :
        LET expected ==
                IF p = PermissionDriver
                   THEN {i \in DOMAIN reports :
                            ~reports[i].deleted /\ reports[i].driver = u}
                ELSE {i \in DOMAIN reports :
                         ~reports[i].deleted /\ reports[i].tenant = TenantOf(u)}
        IN \A r \in ReportService_List(reports, TenantOf(u), u, p) :
              /\ Len(r) = Cardinality(expected)
              /\ {r[k] : k \in DOMAIN r} = expected
              /\ \A k \in 1..(Len(r) - 1) :
                    reports[r[k]].weekStart >= reports[r[k + 1]].weekStart
              /\ \A k \in DOMAIN r : reports[r[k]].tenant = TenantOf(u)

\* The 20 resource bits: view, add, edit and delete of reports, taxis,
\* expenses, deposits and users.
ResourceBits == 0..19

\* C21: after process start with no mask variable in the environment the
\* owner mask is the 20 resource bits without the tenant-management bit, the
\* manager mask is view/add/edit reports, view/add/edit deposits and view
\* taxis, the mechanic mask is view taxis and view reports, the driver mask
\* is view/add reports, and the five role masks are pairwise distinct.
C21_DefaultRoleMasks ==
    (last.op = "SetPermissionMasks" /\ env = NoOverrides) =>
        /\ roleMasks.owner = ResourceBits \ PermissionManageTenants
        /\ roleMasks.manager = {0, 1, 2} \cup {12, 13, 14} \cup {4}
        /\ roleMasks.mechanic = {4} \cup {0}
        /\ roleMasks.driver = {0, 1}
        /\ \A a, b \in DOMAIN roleMasks : a # b => roleMasks[a] # roleMasks[b]

\* C22: whatever logins and logouts came before, Login with the correct
\* password of an active user succeeds and appends exactly one session, whose
\* token is the refresh token issued now and whose expiry is now plus the
\* refresh lifetime.
C22_LoginAlwaysStoresOneSession ==
    \A e \in LoginEmails :
        LET ids == GetUserByEmail(users, e)
            id == First(ids)
            res == AuthService_Login(users, sessions, clock, e, "pw")
        IN (/\ ids # {}
            /\ CompareHashAndPassword(users[id].passwordHash, "pw")
            /\ users[id].active) =>
               /\ res.err = ""
               /\ res.sessions =
                     Append(sessions, [user |-> id,
                                       token |-> RefreshTokenFor(users, id, clock),
                                       expiresAt |-> clock + RefreshExpiration,
                                       deleted |-> FALSE])

\* the rows of another tenant than the caller's are the same in both tables
ForeignRowsKept(tenantID, before, after) ==
    \A id \in DOMAIN before :
        before[id].tenant # tenantID => after[id] = before[id]

\* C23: a service operation called with tenant A changes no stored field of
\* a report or expense of another tenant; in particular ExpenseService
\* Create, Update and Delete called by tenant A on an expense whose report_id
\* names a report of tenant B leave that report's total_expenses unchanged.
C23_OtherTenantsRowsUnchanged ==
    \A u \in Users :
        LET A == TenantOf(u)
            kept(res) == /\ ForeignRowsKept(A, reports, res.reports)
                         /\ ForeignRowsKept(A, expenses, res.expenses)
        IN /\ \A r \in ReportIDs, a \in Amounts :
                 kept(ExpenseService_Create(reports, expenses, A, u, r, a))
           /\ \A id \in ExpenseIDs, a \in {0} \cup Amounts :
                 kept(ExpenseService_Update(reports, expenses, id, A, a))
           /\ \A id \in ExpenseIDs :
                 kept(ExpenseService_Delete(reports, expenses, id, A))
           /\ \A id \in ReportIDs, now \in Times :
                 /\ ForeignRowsKept(A, reports,
                       ReportService_Update(reports, expenses, id, A, u,
                                            MinusOne, Nil, 1).reports)
                 /\ ForeignRowsKept(A, reports,
                       ReportService_Submit(reports, id, A, u, now).reports)
                 /\ ForeignRowsKept(A, reports,
                       ReportService_Approve(reports, id, A, u, MinusOne, now).reports)
                 /\ ForeignRowsKept(A, reports,
                       ReportService_Reject(reports, id, A).reports)
                 /\ ForeignRowsKept(A, reports,
                       ReportService_Delete(reports, id, A, u, MinusOne).reports)

C27_StampsMatchStatus ==
    \A id \in DOMAIN reports :
        ~reports[id].deleted =>
            /\ IF reports[id].status = "approved"
                  THEN reports[id].approvedAt # Nil /\ reports[id].approvedBy # Nil
               ELSE reports[id].approvedAt = Nil /\ reports[id].approvedBy = Nil
            /\ reports[id].submittedAt # Nil
                  <=> reports[id].status \in {"submitted", "approved", "rejected"}

\* a submitted report has just been approved and carries all three stamps
C27_Witness ==
    /\ last = Call("ReportApprove", "")
    /\ \E id \in DOMAIN reports :
          /\ ~reports[id].deleted
          /\ reports[id].status = "approved"
          /\ reports[id].submittedAt # Nil
          /\ reports[id].approvedAt # Nil
          /\ reports[id].approvedBy # Nil

\* C29: no access token is issued for a user whose active flag is false:
\* while the stored user is inactive, Login with any password fails, and
\* RefreshToken with any presented refresh token of that user, a session
\* stored before the deactivation included, fails.
C29_NoTokenForInactiveUser ==
    /\ \A e \in LoginEmails, pw \in LoginPasswords :
          LET ids == GetUserByEmail(users, e)
              res == AuthService_Login(users, sessions, clock, e, pw)
          IN (ids # {} /\ ~users[First(ids)].active) =>
                res.err # "" /\ res.token = NoToken
    /\ \A t \in PresentedRefreshTokens :
          LET res == AuthService_RefreshToken(users, sessions, clock, t)
          IN (t.user \in DOMAIN users /\ ~users[t.user].active) =>
                res.err # "" /\ res.token = NoToken

\* C30: every stored expense with a report_id names a stored report of the
\* expense's own tenant.
C30_ExpenseLinksOwnTenantReport ==
    \A i \in DOMAIN expenses :
        expenses[i].reportID # Nil =>
            /\ expenses[i].reportID \in DOMAIN reports
            /\ reports[expenses[i].reportID].tenant = expenses[i].tenant

\* draft comes before submitted, submitted before approved and rejected
StatusRank(status) ==
    CASE status = "draft" -> 0
      [] status = "submitted" -> 1
      [] status \in {"approved", "rejected"} -> 2

\* C25: when report operations run concurrently, each a read of the row
\* followed later by an overwrite of the whole row, no write stores an
\* earlier status than the stored one: once a report is stored as submitted,
\* approved or rejected, no later write stores draft again.
C25_NoWriteStoresEarlierStatus ==
    [][\A id \in DOMAIN reports :
          StatusRank(reports'[id].status) >= StatusRank(reports[id].status)]_vars

\* C26: when an expense Create linked to report R runs concurrently with a
\* report Submit, Approve, Reject or Update on R, then once every operation
\* has completed the total_expenses of R is the sum of the amounts of the
\* non-deleted expenses linked to R.
C26_TotalIsSumWhenQuiescent ==
    (\A p \in Processes : inflight[p] = Idle) =>
        \A id \in DOMAIN reports :
            ~reports[id].deleted => reports[id].total = RecalcTotal(expenses, id)

\* C28: a report is approved at most once: of two Approve calls running
\* concurrently on one submitted report at most one answers success, that
\* is, an Approve that stores its row and answers success does not find the
\* report already stored as approved by the other call.
C28_ApprovedAtMostOnce ==
    [][\A p \in Processes :
          (inflight[p].op = "ReportApprove" /\ inflight'[p] = Idle) =>
             reports[inflight[p].id].status # "approved"]_vars

====
